---- MODULE Spec2Model ----
(***************************************************************************)
(* Model of the connector-automation content pipeline:                     *)
(*   category_matcher.py        keyword-weighted classification           *)
(*   strapi_content_parser.py   labeled document -> Strapi payload         *)
(* Strings are TLA+ strings; a character is a string of length 1.          *)
(***************************************************************************)
EXTENDS Integers, Sequences, FiniteSets, TLC

VARIABLES
    categories,     \* categories.json as CategoryMatcher.categories holds it
    tags,           \* tags.json as CategoryMatcher.tags holds it
    loadable,       \* whether CategoryMatcher() and its scoring run without raising
    matched,        \* the last match_categories / match_tags call and its result
    outline,        \* what the generation step wrote: the sections of the page
    file_text,      \* the text of the generated page file
    connector,      \* the connector record: its name and logo
    clock,          \* the reading of datetime.utcnow()
    strapi_data,    \* the payload parse_integration_page returned, or None
    last_data,      \* the payload of the page parsed before, or None
    connectors,     \* IntegrationPageGenerator.connectors: the list held in memory
    list_file,      \* the connector list file on disk
    pages,          \* the page files in the output directory
    enable_strapi,  \* IntegrationPageGenerator.enable_strapi
    posts,          \* the calls of publish_integration made so far
    run,            \* the command being executed and the locals of its loop
    last_call       \* the last call of generate_page and what it did

vars == <<categories, tags, loadable, matched, outline, file_text, connector, clock,
          strapi_data, last_data, connectors, list_file, pages, enable_strapi, posts,
          run, last_call>>

matcherVars == <<categories, tags, loadable, matched>>

parserVars == <<outline, file_text, connector, clock, strapi_data, last_data>>

generatorVars == <<connectors, list_file, pages, enable_strapi, posts, run, last_call>>

-----------------------------------------------------------------------------
(* Bounds of the model *)

MaxEntries == 3        \* longest category taxonomy explored
MaxTagEntries == 2     \* longest tag taxonomy explored
MaxResultsBound == 2   \* largest max_categories / max_tags argument explored

-----------------------------------------------------------------------------
(* Python str primitives *)

Min(a, b) == IF a <= b THEN a ELSE b

\* max(S) and min(S) of a nonempty set of integers
MaxOf(S) == CHOOSE x \in S : \A y \in S : y <= x

MinOf(S) == CHOOSE x \in S : \A y \in S : x <= y

\* s[i] (1-based)
Ch(s, i) == SubSeq(s, i, i)

\* s[:n] for n >= 0
Prefix(s, n) == SubSeq(s, 1, Min(n, Len(s)))

\* s.startswith(sub, i-1)
StartsAt(s, sub, i) ==
    /\ i + Len(sub) - 1 <= Len(s)
    /\ SubSeq(s, i, i + Len(sub) - 1) = sub

\* sub in s
Contains(s, sub) == \E i \in 1..(Len(s) - Len(sub) + 1) : StartsAt(s, sub, i)

UpperCase == "ABCDEFGHIJKLMNOPQRSTUVWXYZ"

LowerCase == "abcdefghijklmnopqrstuvwxyz"

UpperLetters == {Ch(UpperCase, i) : i \in 1..Len(UpperCase)}

LowerTable ==
    [c \in UpperLetters |->
        Ch(LowerCase, CHOOSE i \in 1..Len(UpperCase) : Ch(UpperCase, i) = c)]

\* s[a..b] with the character at each position i of at replaced by to[i]
RECURSIVE ReplaceAt(_, _, _, _, _)
ReplaceAt(s, at, to, a, b) ==
    LET here == {i \in at : a <= i /\ i <= b}
        mid == (a + b) \div 2
    IN  IF here = {} THEN SubSeq(s, a, b)
        ELSE IF a = b THEN to[a]
        ELSE ReplaceAt(s, here, to, a, mid) \o ReplaceAt(s, here, to, mid + 1, b)

\* s.lower()
lower(s) ==
    LET upper == {i \in 1..Len(s) : Ch(s, i) \in UpperLetters}
    IN  ReplaceAt(s, upper, [i \in upper |-> LowerTable[Ch(s, i)]], 1, Len(s))

\* the start positions of every (possibly overlapping) occurrence of sub in s
Occurrences(s, sub) ==
    {i \in 1..(Len(s) - Len(sub) + 1) :
        /\ Ch(s, i) = Ch(sub, 1)
        /\ SubSeq(s, i, i + Len(sub) - 1) = sub}

\* s.count(sub) scans left to right and skips past each occurrence it counts
RECURSIVE CountFrom(_, _, _)
CountFrom(occ, n, from) ==
    LET later == {i \in occ : i >= from}
    IN  IF later = {} THEN 0
        ELSE 1 + CountFrom(occ, n, (CHOOSE i \in later : \A j \in later : i <= j) + n)

\* s.count(sub); the empty string occurs len(s) + 1 times
count(s, sub) ==
    IF sub = "" THEN Len(s) + 1 ELSE CountFrom(Occurrences(s, sub), Len(sub), 1)

-----------------------------------------------------------------------------
(* category_matcher.py *)

\* text_to_analyze = f"{connector_name.lower()} {content.lower()}"
TextToAnalyze(connector_name, content) ==
    lower(connector_name) \o " " \o lower(content)

NameWeight == 10

ContentWeight == 2

\* the contribution of a keyword that occurs cnt times in text_to_analyze
KeywordScoreFlat(cnt, keyword_lower, connector_name) ==
    IF cnt > 0 THEN cnt * ContentWeight ELSE 0

KeywordScore(cnt, keyword_lower, connector_name) ==
    IF cnt > 0
    THEN IF Contains(lower(connector_name), keyword_lower)
         THEN cnt * NameWeight
         ELSE cnt * ContentWeight
    ELSE 0

RECURSIVE SumSeq(_)
SumSeq(q) == IF q = <<>> THEN 0 ELSE Head(q) + SumSeq(Tail(q))

\* text_to_analyze.count(keyword_lower) for each keyword of an entry
KeywordCounts(keywords, text_to_analyze) ==
    [k \in 1..Len(keywords) |-> count(text_to_analyze, lower(keywords[k]))]

\* the keywords at the indexes in matched_index, in list order
MatchedKeywords(keywords, matched_index) ==
    [k \in 1..Cardinality(matched_index) |->
        keywords[CHOOSE m \in matched_index :
                    Cardinality({j \in matched_index : j <= m}) = k]]

\* the score and matched_keywords of an entry, given the count of each keyword
EntryScore(entry, connector_name, counts) ==
    [id |-> entry.id, name |-> entry.name,
     score |-> SumSeq([k \in DOMAIN counts |->
                          KeywordScore(counts[k], lower(entry.keywords[k]),
                                       connector_name)]),
     matched_keywords |->
         MatchedKeywords(entry.keywords, {k \in DOMAIN counts : counts[k] > 0})]

\* the inner loop over entry['keywords']
ScoredEntry(entry, connector_name, text_to_analyze) ==
    EntryScore(entry, connector_name, KeywordCounts(entry.keywords, text_to_analyze))

\* the outer loop, keeping zero scores too
ScoredWithZeros(taxonomy, connector_name, text_to_analyze) ==
    [i \in 1..Len(taxonomy) |-> ScoredEntry(taxonomy[i], connector_name, text_to_analyze)]

\* the outer loop: the scored entries with score > 0, in taxonomy order
Scored(taxonomy, connector_name, text_to_analyze) ==
    SelectSeq([i \in 1..Len(taxonomy) |->
                  ScoredEntry(taxonomy[i], connector_name, text_to_analyze)],
              LAMBDA e : e.score > 0)

\* list.sort(key=score, reverse=True): stable, so equal scores keep list order
InsertByScore(sorted, x) ==
    LET k == Cardinality({i \in 1..Len(sorted) : sorted[i].score >= x.score})
    IN  SubSeq(sorted, 1, k) \o <<x>> \o SubSeq(sorted, k + 1, Len(sorted))

RECURSIVE SortUnstable(_)
SortUnstable(scores) ==
    IF scores = <<>> THEN <<>>
    ELSE LET rest == SortUnstable(SubSeq(scores, 1, Len(scores) - 1))
             x == scores[Len(scores)]
             k == Cardinality({i \in 1..Len(rest) : rest[i].score > x.score})
         IN  SubSeq(rest, 1, k) \o <<x>> \o SubSeq(rest, k + 1, Len(rest))

RECURSIVE SortByScore(_)
SortByScore(scores) ==
    IF scores = <<>> THEN <<>>
    ELSE InsertByScore(SortByScore(SubSeq(scores, 1, Len(scores) - 1)),
                       scores[Len(scores)])

\* scores[:max_results] for max_results >= 0
Top(scores, max_results) == SubSeq(scores, 1, Min(max_results, Len(scores)))

Ids(scores) == [i \in 1..Len(scores) |-> scores[i].id]

\* the sorted scores and the ids of scores[:max_results]
Ranked(scores, max_results) ==
    [scores |-> scores, ids |-> Ids(Top(scores, max_results))]

\* match_categories: the sorted category_scores and the returned category_ids
match_categories(connector_name, content, max_categories) ==
    Ranked(SortByScore(Scored(categories, connector_name,
                              TextToAnalyze(connector_name, content))),
           max_categories)

\* match_tags: the sorted tag_scores and the returned tag_ids
match_tags(connector_name, content, max_tags) ==
    Ranked(SortByScore(Scored(tags, connector_name,
                              TextToAnalyze(connector_name, content))),
           max_tags)

-----------------------------------------------------------------------------
(* Python re primitives used by strapi_content_parser.py *)

\* the characters \s matches and str.strip() removes
Whitespace == {" ", "\t", "\n", "\r", "\f"}

IsSpace(c) == c \in Whitespace

\* s.strip()
strip(s) ==
    LET n == Len(s)
    IN  IF \A i \in 1..n : IsSpace(Ch(s, i)) THEN ""
        ELSE LET first == CHOOSE i \in 1..n :
                              /\ ~IsSpace(Ch(s, i))
                              /\ \A j \in 1..(i - 1) : IsSpace(Ch(s, j))
                 last == CHOOSE i \in 1..n :
                              /\ ~IsSpace(Ch(s, i))
                              /\ \A j \in (i + 1)..n : IsSpace(Ch(s, j))
             IN  SubSeq(s, first, last)

\* the length of the run of whitespace that starts at position p
SpaceRun(s, p) ==
    CHOOSE k \in 0..(Len(s) - p + 1) :
        /\ p + k > Len(s) \/ ~IsSpace(Ch(s, p + k))
        /\ \A j \in 0..(k - 1) : IsSpace(Ch(s, p + j))

\* the last position (.+?) can take from c on: '.' matches anything under
\* re.DOTALL, else anything but a newline
DotReach(s, c, dotall) ==
    IF dotall \/ \A j \in c..Len(s) : Ch(s, j) # "\n" THEN Len(s)
    ELSE (CHOOSE j \in c..Len(s) :
              Ch(s, j) = "\n" /\ \A i \in c..(j - 1) : Ch(s, i) # "\n") - 1

\* (?:\n\n|\n\[) matches right after s[e]
BoundaryAfter(s, e) ==
    /\ e + 2 <= Len(s)
    /\ Ch(s, e + 1) = "\n"
    /\ (Ch(s, e + 2) = "\n" \/ Ch(s, e + 2) = "[")

\* $ matches right after s[e]: at the end of the string, or just before a
\* newline that ends the string (no re.MULTILINE)
DollarAfter(s, e) == e = Len(s) \/ (e = Len(s) - 1 /\ Ch(s, Len(s)) = "\n")

\* (?=\nA:) matches right after s[e]
AnswerAfter(s, e) == StartsAt(s, "\nA:", e + 1)

\* the three ways a pattern of the parser ends after its capture
TailAt(s, e, tail) ==
    CASE tail = "boundary" -> BoundaryAfter(s, e)
      [] tail = "end" -> DollarAfter(s, e)
      [] tail = "answer" -> AnswerAfter(s, e)

\* (.+?)<tail> tried at position c, where '.' matches up to position reach:
\* the lazy capture is the shortest one, at least one character long.  The
\* result is <<c, e>>, the capture s[c..e], or <<>>.
CaptureFrom(s, c, reach, tail) ==
    IF \E e \in c..reach : TailAt(s, e, tail)
    THEN <<c, CHOOSE e \in c..reach :
                  TailAt(s, e, tail) /\ \A f \in c..(e - 1) : ~TailAt(s, f, tail)>>
    ELSE <<>>

\* \s*<sep>(.+?)<tail> tried at position p: the capture for each number k of
\* whitespace characters that \s* may take
CapturesAfter(s, p, sep, dotall, tail) ==
    [k \in 0..SpaceRun(s, p) |->
        IF StartsAt(s, sep, p + k)
        THEN CaptureFrom(s, p + k + Len(sep),
                         DotReach(s, p + k + Len(sep), dotall), tail)
        ELSE <<>>]

\* the capture at the largest / smallest index that has one, or <<>>
LastHit(cap) ==
    LET hits == {k \in DOMAIN cap : cap[k] # <<>>}
    IN  IF hits = {} THEN <<>> ELSE cap[MaxOf(hits)]

FirstHit(cap) ==
    LET hits == {k \in DOMAIN cap : cap[k] # <<>>}
    IN  IF hits = {} THEN <<>> ELSE cap[MinOf(hits)]

\* \s* is greedy: it takes the longest run that lets the rest match
LazyCapture(s, p, sep, dotall, tail) == LastHit(CapturesAfter(s, p, sep, dotall, tail))

\* re.search(<label>\s*<sep>(.+?)<tail>, s): the leftmost start that matches
SearchCapture(s, label, sep, dotall, tail) ==
    FirstHit([i \in Occurrences(s, label) |->
                 LazyCapture(s, i + Len(label), sep, dotall, tail)])

-----------------------------------------------------------------------------
(* strapi_content_parser.py *)

\* Optional[str]: None is the empty tuple, a string s is <<s>>
None == <<>>

Some(s) == <<s>>

\* Python truthiness of an Optional[str]: neither None nor ""
Truthy(v) == v # None /\ v[1] # ""

\* a default used only for a missing value, an empty one kept
OrElseNone(v, default) == IF v # None THEN v[1] ELSE default

\* v or default
OrElse(v, default) == IF Truthy(v) THEN v[1] ELSE default

\* the patterns of parse_integration_page: r'\[Label\]\s*\n(.+?)(?:\n\n|\n\[)'
\* for the seven sections, r'\[FAQs\]\s*\n(.+?)$' for the last one
SectionPattern(label) == [label |-> label, tail |-> "boundary"]

FaqsPattern == [label |-> "[FAQs]", tail |-> "end"]

\* match.group(1).strip() if match else None
Captured(s, m) == IF m # <<>> THEN Some(strip(SubSeq(s, m[1], m[2]))) ELSE None

\* _extract_section
_extract_section(content, pattern, multiline) ==
    Captured(content,
             SearchCapture(content, pattern.label, "\n", multiline, pattern.tail))

\* re.split(r'\n(?=Q:)', text): the pieces between the newlines that precede "Q:"
SplitBeforeQ(text) ==
    LET cuts == {i \in 1..Len(text) : Ch(text, i) = "\n" /\ StartsAt(text, "Q:", i + 1)}
        n == Cardinality(cuts)
        cut(k) == IF k = 0 THEN 0
                  ELSE IF k = n + 1 THEN Len(text) + 1
                  ELSE CHOOSE i \in cuts : Cardinality({j \in cuts : j <= i}) = k
    IN  [k \in 1..(n + 1) |-> SubSeq(text, cut(k - 1) + 1, cut(k) - 1)]

\* if q_match and a_match: faqs.append({question, answer})
FaqOfMatches(block, q_match, a_match) ==
    IF q_match # <<>> /\ a_match # <<>>
    THEN << [question |-> strip(SubSeq(block, q_match[1], q_match[2])),
             answer |-> strip(SubSeq(block, a_match[1], a_match[2]))] >>
    ELSE <<>>

\* a stripped block: skipped when empty, else searched for r'Q:\s*(.+?)(?=\nA:)'
\* and r'A:\s*(.+?)$'
FaqOfBlock(block) ==
    IF block = "" THEN <<>>
    ELSE FaqOfMatches(block, SearchCapture(block, "Q:", "", TRUE, "answer"),
                      SearchCapture(block, "A:", "", TRUE, "end"))

\* one block of _parse_faqs: <<pair>> when both patterns match, else <<>>
ParseFaqBlock(raw) == FaqOfBlock(strip(raw))

RECURSIVE Flatten(_)
Flatten(qq) == IF qq = <<>> THEN <<>> ELSE Head(qq) \o Flatten(Tail(qq))

\* for block in faq_blocks
ParseFaqBlocks(faq_blocks) ==
    Flatten([k \in 1..Len(faq_blocks) |-> ParseFaqBlock(faq_blocks[k])])

\* _parse_faqs
_parse_faqs(faqs_text) ==
    IF ~Truthy(faqs_text) THEN <<>>
    ELSE ParseFaqBlocks(SplitBeforeQ(strip(faqs_text[1])))

\* _generate_faqs: five fixed pairs; capabilities and workflows are not read
_generate_faqs(connector_name, capabilities, workflows) ==
    << [question |-> "What is " \o connector_name \o " integration with Ruh AI?",
        answer |-> connector_name \o " integration with Ruh AI enables seamless automation and data synchronization between " \o connector_name \o " and your enterprise systems."],
       [question |-> "How does " \o connector_name \o " integration work?",
        answer |-> "The integration uses bi-directional data flow to automatically sync information between systems, reducing manual entry and improving accuracy."],
       [question |-> "Is the integration secure?",
        answer |-> "Yes, all data transfers are encrypted in transit and at rest, with OAuth 2.0 authentication ensuring only authorized users can access or modify data."],
       [question |-> "Can I customize the " \o connector_name \o " integration?",
        answer |-> "Yes, you can configure which data fields sync, set up custom automation workflows, and control permissions based on your team's needs."],
       [question |-> "How quickly does data sync between Ruh AI and " \o connector_name \o "?",
        answer |-> "Data syncs in real-time, ensuring your team always has the most up-to-date information across both platforms."] >>

\* s.replace(old, new) for a single character old, as at every call site
replace(s, old, new) ==
    LET found == {i \in 1..Len(s) : Ch(s, i) = old}
    IN  ReplaceAt(s, found, [i \in found |-> new], 1, Len(s))

\* s.split(sep) for a single character sep
split(s, sep) ==
    LET cuts == {i \in 1..Len(s) : Ch(s, i) = sep}
        n == Cardinality(cuts)
        cut(k) == IF k = 0 THEN 0
                  ELSE IF k = n + 1 THEN Len(s) + 1
                  ELSE CHOOSE i \in cuts : Cardinality({j \in cuts : j <= i}) = k
    IN  [k \in 1..(n + 1) |-> SubSeq(s, cut(k - 1) + 1, cut(k) - 1)]

\* sep.join(parts)
RECURSIVE join(_, _)
join(sep, parts) ==
    IF parts = <<>> THEN ""
    ELSE IF Len(parts) = 1 THEN parts[1]
    ELSE parts[1] \o sep \o join(sep, Tail(parts))

\* the characters keywords are made of, in code point order
CodeOrder == " 0123456789ABCDEFGHIJKLMNOPQRSTUVWXYZ_abcdefghijklmnopqrstuvwxyz"

OrdTable == [c \in {Ch(CodeOrder, i) : i \in 1..Len(CodeOrder)} |->
                CHOOSE i \in 1..Len(CodeOrder) : Ch(CodeOrder, i) = c]

\* a < b for Python strings: by code point, a proper prefix first
LessStr(a, b) ==
    LET n == Min(Len(a), Len(b))
        differ == {i \in 1..n : Ch(a, i) # Ch(b, i)}
    IN  IF differ = {} THEN Len(a) < Len(b)
        ELSE LET d == CHOOSE i \in differ : \A j \in differ : i <= j
             IN  OrdTable[Ch(a, d)] < OrdTable[Ch(b, d)]

\* sorted(set_of_strings)
sorted(S) ==
    [k \in 1..Cardinality(S) |->
        CHOOSE x \in S : Cardinality({y \in S : LessStr(y, x)}) = k - 1]

Letters == {Ch(LowerCase, i) : i \in 1..Len(LowerCase)}
               \cup {Ch(UpperCase, i) : i \in 1..Len(UpperCase)}

Digits == {"0", "1", "2", "3", "4", "5", "6", "7", "8", "9"}

\* \w
IsWordChar(c) == c \in Letters \/ c \in Digits \/ c = "_"

MinWordLen == 4

\* set(re.findall(r'\b[a-zA-Z]{4,}\b', s)): the runs of at least 4 letters that
\* have no letter, digit or underscore next to them
Words(s) ==
    LET n == Len(s)
        starts == {a \in 1..n : /\ Ch(s, a) \in Letters
                                /\ (a = 1 \/ ~IsWordChar(Ch(s, a - 1)))}
        EndOf(a) == CHOOSE b \in a..n :
                        /\ b = n \/ Ch(s, b + 1) \notin Letters
                        /\ \A j \in a..b : Ch(s, j) \in Letters
    IN  {SubSeq(s, a, EndOf(a)) :
            a \in {x \in starts : /\ EndOf(x) - x + 1 >= MinWordLen
                                  /\ (EndOf(x) = n \/ ~IsWordChar(Ch(s, EndOf(x) + 1)))}}

stop_words == {"the", "a", "an", "and", "or", "but", "in", "on", "at", "to", "for",
               "of", "with", "by"}

MaxKeywords == 15

\* the words of title.lower() that are no stop words
TitleWords(title) ==
    IF Truthy(title)
    THEN {w \in Words(lower(title[1])) : w \notin stop_words}
    ELSE {}

\* _extract_keywords: only the title is read
_extract_keywords(title, one_liner, overview) ==
    join(", ",
         Prefix(sorted(TitleWords(title)
                           \cup {"integration", "automation", "workflow", "ruh ai"}),
                MaxKeywords))

\* an item split at its last colon
LabelledItemAtLastColon(item, colons) ==
    IF colons # {}
    THEN << "<li><p><span style='font-weight: 600;'>"
            \o strip(SubSeq(item, 1, MaxOf(colons) - 1)) \o ":</span> "
            \o strip(SubSeq(item, MaxOf(colons) + 1, Len(item))) \o "</p></li>" >>
    ELSE << "<li><p>" \o item \o "</p></li>" >>

\* label, description = item.split(':', 1) when ':' is in item
LabelledItem(item, colons) ==
    IF colons # {}
    THEN << "<li><p><span style='font-weight: 600;'>"
            \o strip(SubSeq(item, 1, MinOf(colons) - 1)) \o ":</span> "
            \o strip(SubSeq(item, MinOf(colons) + 1, Len(item))) \o "</p></li>" >>
    ELSE << "<li><p>" \o item \o "</p></li>" >>

\* a stripped line: a bullet when it starts with '*'
BulletOfLine(line) ==
    IF StartsAt(line, "*", 1)
    THEN LabelledItem(strip(SubSeq(line, 2, Len(line))),
                      Occurrences(strip(SubSeq(line, 2, Len(line))), ":"))
    ELSE <<>>

\* one line of _convert_bullets_to_html: <<item>> for a bullet line, else <<>>
BulletItem(raw_line) == BulletOfLine(strip(raw_line))

\* for line in lines
BulletItems(lines) == Flatten([k \in 1..Len(lines) |-> BulletItem(lines[k])])

\* the list of the bullet items, or the text as one paragraph
ListOrParagraph(text, html_items) ==
    IF html_items # <<>>
    THEN "<ul>\n" \o join("\n", html_items) \o "\n</ul>"
    ELSE "<p>" \o text \o "</p>"

\* _convert_bullets_to_html
_convert_bullets_to_html(text) == ListOrParagraph(text, BulletItems(split(text, "\n")))

\* _build_html_content: title and one_liner are not rendered
_build_html_content(title, one_liner, overview, capabilities, workflows, benefits, security) ==
    join("\n",
         (IF Truthy(overview)
          THEN << "<h2>Overview</h2><p>" \o overview[1] \o "</p>" >> ELSE <<>>)
         \o (IF Truthy(capabilities)
             THEN << "<h2>Core Capabilities</h2>", _convert_bullets_to_html(capabilities[1]) >>
             ELSE <<>>)
         \o (IF Truthy(workflows)
             THEN << "<h2>Common Automation Workflows</h2>",
                     _convert_bullets_to_html(workflows[1]) >>
             ELSE <<>>)
         \o (IF Truthy(benefits)
             THEN << "<h2>Key Benefits</h2>", _convert_bullets_to_html(benefits[1]) >>
             ELSE <<>>)
         \o (IF Truthy(security)
             THEN << "<h2>Security and Permissions</h2><p>" \o security[1] \o "</p>" >>
             ELSE <<>>))

\* slug = connector_name.lower().replace(' ', '-').replace('(', '')
\*                      .replace(')', '').replace('.', '-')
SlugDotsDropped(connector_name) ==
    replace(replace(replace(replace(lower(connector_name), " ", "-"), "(", ""), ")", ""),
            ".", "")

SlugCaseKept(connector_name) ==
    replace(replace(replace(replace(connector_name, " ", "-"), "(", ""), ")", ""),
            ".", "-")

Slug(connector_name) ==
    replace(replace(replace(replace(lower(connector_name), " ", "-"), "(", ""), ")", ""),
            ".", "-")

MinFaqs == 3

\* faqs = _parse_faqs(faqs_text); if not faqs or len(faqs) < 3: faqs = _generate_faqs(...)
FaqsFromTwo(parsed, connector_name, capabilities, workflows) ==
    IF parsed = <<>> \/ Len(parsed) < MinFaqs - 1
    THEN _generate_faqs(connector_name, capabilities, workflows)
    ELSE parsed

FaqsPadded(parsed, connector_name, capabilities, workflows) ==
    IF parsed = <<>> \/ Len(parsed) < MinFaqs
    THEN parsed \o SubSeq(_generate_faqs(connector_name, capabilities, workflows),
                          1, MinFaqs - Len(parsed))
    ELSE parsed

FaqsOrFallback(parsed, connector_name, capabilities, workflows) ==
    IF parsed = <<>> \/ Len(parsed) < MinFaqs
    THEN _generate_faqs(connector_name, capabilities, workflows)
    ELSE parsed

DefaultMaxCategories == 3

DefaultMaxTags == 2

\* the try block: CategoryMatcher(), match_categories and match_tags all ran
ClassifyLoaded(connector_name, content) ==
    [category |-> match_categories(connector_name, content, DefaultMaxCategories).ids,
     tags |-> match_tags(connector_name, content, DefaultMaxTags).ids]

\* an except branch that would keep what the try block had computed so far
ClassifyKeepingCategories(connector_name, content) ==
    IF loadable
    THEN ClassifyLoaded(connector_name, content)
    ELSE [category |-> ClassifyLoaded(connector_name, content).category, tags |-> <<>>]

\* try: CategoryMatcher(); match_categories; match_tags / except: both empty
Classify(connector_name, content) ==
    IF loadable
    THEN ClassifyLoaded(connector_name, content)
    ELSE [category |-> <<>>, tags |-> <<>>]

MetaTitleMax == 60

MetaDescriptionMax == 160

StructuredDescriptionMax == 200

OgTitleMax == 70

OgDescriptionMax == 200

TwitterTitleMax == 70

TwitterDescriptionMax == 200

\* the length-capped fields of the seo object
MetaTitleUncut(title, connector_name) ==
    OrElse(title, connector_name \o " Integration - Ruh AI")

MetaTitle(title, connector_name) ==
    Prefix(OrElse(title, connector_name \o " Integration - Ruh AI"), MetaTitleMax)

MetaDescription(one_liner, connector_name) ==
    Prefix(OrElse(one_liner, "Integrate " \o connector_name
                     \o " with Ruh AI for intelligent automation and seamless workflows."),
           MetaDescriptionMax)

OgTitle(title, connector_name) ==
    Prefix(OrElse(title, connector_name \o " + Ruh AI Integration"), OgTitleMax)

OgDescriptionUncut(one_liner, connector_name) ==
    OrElse(one_liner, "Integrate " \o connector_name
                          \o " with Ruh AI for intelligent automation.")

OgDescription(one_liner, connector_name) ==
    Prefix(OrElse(one_liner, "Integrate " \o connector_name
                     \o " with Ruh AI for intelligent automation."),
           OgDescriptionMax)

TwitterTitleFromHero(title, connector_name) ==
    Prefix(OrElse(title, connector_name \o " + Ruh AI Integration"), TwitterTitleMax)

TwitterTitle(title, connector_name) ==
    Prefix(OrElse(title, connector_name \o " + Ruh AI"), TwitterTitleMax)

TwitterDescription(one_liner, connector_name) ==
    Prefix(OrElse(one_liner, "Integrate " \o connector_name
                     \o " with Ruh AI for intelligent automation."),
           TwitterDescriptionMax)

\* the payload assembled from the extracted sections and the derived values
StrapiData(connector_name, logo_url, utcnow, title, one_liner, html_content, slug, keywords, faqs, ids) ==
    [name |-> connector_name,
     heroTitle |-> OrElse(title, connector_name \o " + Ruh AI Integration"),
     description |-> OrElse(one_liner, "Integration between " \o connector_name
                                           \o " and Ruh AI"),
     slug |-> slug,
     icon |-> logo_url,
     content |-> html_content,
     category |-> ids.category,
     tags |-> ids.tags,
     faqs |-> faqs,
     seo |->
       [metaTitle |-> MetaTitle(title, connector_name),
        metaDescription |-> MetaDescription(one_liner, connector_name),
        metaImage |-> logo_url,
        keywords |-> keywords,
        metaRobots |-> "index follow",
        metaViewport |-> "width=device-width initial-scale=1",
        canonicalURL |-> "https://ruh.ai/integrations/" \o slug,
        structuredData |->
          ("@context" :> "https://schema.org"
           @@ "@type" :> "SoftwareApplication"
           @@ "name" :> (connector_name \o " + Ruh AI Integration")
           @@ "description" :>
                Prefix(OrElse(one_liner, "Integrate " \o connector_name
                                             \o " with Ruh AI"),
                       StructuredDescriptionMax)),
        openGraph |->
          [ogTitle |-> OgTitle(title, connector_name),
           ogDescription |-> OgDescription(one_liner, connector_name),
           ogImage |-> logo_url,
           ogUrl |-> "https://ruh.ai/integrations/" \o slug,
           ogType |-> "website"],
        twitterCard |->
          [twitterCard |-> "summary_large_image",
           twitterTitle |-> TwitterTitle(title, connector_name),
           twitterDescription |-> TwitterDescription(one_liner, connector_name),
           twitterImage |-> logo_url,
           twitterSite |-> "@ruh_ai",
           twitterCreator |-> "@ruh_ai"]],
     publishedAt |-> utcnow \o "Z"]

\* the built content kept as it is, empty or not
HtmlAsBuilt(content, built) == built

\* if not html_content or html_content.strip() == "": wrap the raw text
HtmlOrRaw(content, built) ==
    IF built = "" \/ strip(built) = ""
    THEN "<div>" \o replace(content, "\n", "<br>") \o "</div>"
    ELSE built

\* parse_integration_page from the extracted sections on
FromSections(content, connector_name, logo_url, utcnow, title, one_liner, overview, capabilities, workflows, benefits, security, faqs_text, ids) ==
    StrapiData(connector_name, logo_url, utcnow, title, one_liner,
               HtmlOrRaw(content,
                         _build_html_content(title, one_liner, overview, capabilities,
                                             workflows, benefits, security)),
               Slug(connector_name),
               _extract_keywords(title, one_liner, overview),
               FaqsOrFallback(_parse_faqs(faqs_text), connector_name,
                              capabilities, workflows),
               ids)

\* parse_integration_page, given the ids classification ended with
PayloadWith(content, connector_name, logo_url, utcnow, ids) ==
    FromSections(content, connector_name, logo_url, utcnow,
        _extract_section(content, SectionPattern("[Title]"), FALSE),
        _extract_section(content, SectionPattern("[One-line connector statement]"), FALSE),
        _extract_section(content, SectionPattern("[Overview paragraph]"), FALSE),
        _extract_section(content, SectionPattern("[Core Capabilities]"), TRUE),
        _extract_section(content, SectionPattern("[Common Automation Workflows]"), TRUE),
        _extract_section(content, SectionPattern("[Key Benefits]"), TRUE),
        _extract_section(content, SectionPattern("[Security and Permissions]"), TRUE),
        _extract_section(content, FaqsPattern, TRUE),
        ids)

\* a payload whose metaRobots separates its two directives by a comma
ParseWithCommaInRobots(content, connector_name, logo_url, utcnow) ==
    [PayloadWith(content, connector_name, logo_url, utcnow, Classify(connector_name, content))
        EXCEPT !.seo.metaRobots = "index, follow"]

\* parse_integration_page: content is the text of the file at file_path, utcnow
\* the reading of the clock
parse_integration_page(content, connector_name, logo_url, utcnow) ==
    PayloadWith(content, connector_name, logo_url, utcnow,
                Classify(connector_name, content))

-----------------------------------------------------------------------------
(* Inputs of the matcher *)

CategoryPool ==
    { [id |-> 8,  name |-> "CRM",        keywords |-> <<"acme">>],
      [id |-> 12, name |-> "Sales",      keywords |-> <<"crm">>],
      [id |-> 15, name |-> "Automation", keywords |-> <<"Sync", "crm">>],
      [id |-> 3,  name |-> "Finance",    keywords |-> <<"invoice">>] }

TagPool ==
    { [id |-> 1, name |-> "Native", keywords |-> <<"sync">>],
      [id |-> 2, name |-> "API",    keywords |-> <<"ac", "me c">>] }

\* the taxonomies of at most n entries of the pool, ids unique
Taxonomies(pool, n) ==
    UNION { { t \in [1..k -> pool] : \A i, j \in 1..k : i # j => t[i].id # t[j].id }
            : k \in 0..n }

ConnectorNames == {"Acme", "CRM Sync"}

Contents ==
    { "",
      "acme crm acme crm",
      "Acme invoice: CRM and crm" }

-----------------------------------------------------------------------------
(* The matcher as a state machine: __init__ loads the taxonomies, a caller  *)
(* holds the arguments, and the two match operations are applied to them.  *)

\* no command started; no call of generate_page made
IdleRun ==
    [command |-> "idle", count |-> 0, i |-> 0, successful |-> 0, failed |-> 0,
     attempted |-> <<>>, before |-> <<>>, done |-> FALSE, runs |-> 0, status |-> None]

NoCall ==
    [index |-> 0, name |-> "", content |-> None, file |-> "none",
     parsed |-> FALSE, posted |-> FALSE, success |-> FALSE, marked |-> FALSE,
     saved |-> FALSE, returned |-> FALSE, steps |-> <<>>]

\* the generator variables of a state in which no generator exists
NoGenerator ==
    /\ connectors = <<>>
    /\ list_file = [intact |-> TRUE, connectors |-> <<>>]
    /\ pages = {}
    /\ enable_strapi = FALSE
    /\ posts = <<>>
    /\ run = IdleRun
    /\ last_call = NoCall

InitMatcher ==
    /\ NoGenerator
    /\ loadable = TRUE
    /\ outline = None /\ file_text = "" /\ connector = [name |-> "", logo |-> ""]
    /\ clock = "" /\ strapi_data = None /\ last_data = None
    /\ categories \in Taxonomies(CategoryPool, MaxEntries)
    /\ tags \in Taxonomies(TagPool, MaxTagEntries)
    /\ \E connector_name \in ConnectorNames, content \in Contents,
          max_results \in 0..MaxResultsBound :
            matched = [op |-> "none", connector_name |-> connector_name,
                       content |-> content, max_results |-> max_results,
                       scores |-> <<>>, ids |-> <<>>]

MatchCategories ==
    LET r == match_categories(matched.connector_name, matched.content,
                              matched.max_results)
    IN  /\ matched' = [matched EXCEPT !.op = "match_categories",
                                      !.scores = r.scores, !.ids = r.ids]
        /\ UNCHANGED <<categories, tags, loadable>>
        /\ UNCHANGED <<parserVars, generatorVars>>

MatchTags ==
    LET r == match_tags(matched.connector_name, matched.content, matched.max_results)
    IN  /\ matched' = [matched EXCEPT !.op = "match_tags",
                                      !.scores = r.scores, !.ids = r.ids]
        /\ UNCHANGED <<categories, tags, loadable>>
        /\ UNCHANGED <<parserVars, generatorVars>>

NextMatcher == MatchCategories \/ MatchTags

SpecMatcher == InitMatcher /\ [][NextMatcher]_vars

-----------------------------------------------------------------------------
(* Inputs of the parser: the pages the generation step may write *)

MaxFaqPairs == 4       \* most Q:/A: pairs a generated FAQs section holds

RECURSIVE Repeat(_, _)
Repeat(s, n) == IF n = 0 THEN "" ELSE s \o Repeat(s, n - 1)

\* a text of exactly n characters, none of them whitespace
Text(n) == Prefix(Repeat("Acme-CRM-sync+", n \div 14 + 1), n)

SectionLabels ==
    [title |-> "[Title]", one_liner |-> "[One-line connector statement]",
     overview |-> "[Overview paragraph]", capabilities |-> "[Core Capabilities]",
     workflows |-> "[Common Automation Workflows]", benefits |-> "[Key Benefits]",
     security |-> "[Security and Permissions]", faqs |-> "[FAQs]"]

SectionOrder == <<"title", "one_liner", "overview", "capabilities", "workflows",
                  "benefits", "security", "faqs">>

FaqPairs ==
    << [question |-> "How does Acme sync data?", answer |-> "It syncs both ways."],
       [question |-> "Is it secure?", answer |-> "Yes: OAuth 2.0.\nTokens are encrypted."],
       [question |-> "Can I choose fields?", answer |-> "Yes, per object."],
       [question |-> "How fast is the sync?", answer |-> "Real-time."],
       [question |-> "What if Acme is down?", answer |-> "Updates are queued."],
       [question |-> "Are duplicates created?", answer |-> "No."] >>

\* the text of a FAQs section: well-formed pairs, then perhaps a block that is
\* not a pair
FaqsBody(f) ==
    join(f.sep,
         [k \in 1..Len(f.pairs) |->
             "Q: " \o f.pairs[k].question \o "\nA: " \o f.pairs[k].answer]
         \o (IF f.extra = "" THEN <<>> ELSE <<f.extra>>))

\* the page file: each section present as its label line and its body, a
\* blank line between sections
Render(o) ==
    LET body(key) == IF key = "faqs" THEN FaqsBody(o.faqs[1]) ELSE o[key][1]
        present == SelectSeq(SectionOrder, LAMBDA key : o[key] # None)
    IN  join("\n\n", [k \in 1..Len(present) |->
                         SectionLabels[present[k]] \o "\n" \o body(present[k])])
        \o o.ending

BaseOutline ==
    [title |-> Some("Acme + Ruh AI: Automated CRM Sync"),
     one_liner |-> Some("Connect Acme with Ruh AI to sync your CRM."),
     overview |-> Some("Ruh AI keeps Acme records current."),
     capabilities |-> Some("Ruh AI syncs:\n* Deals: Pipeline stages.\n* Notes"),
     workflows |-> None,
     benefits |-> Some("* Data Integrity: A cleaner CRM."),
     security |-> Some("Ruh AI connects through OAuth 2.0."),
     faqs |-> Some([pairs |-> SubSeq(FaqPairs, 1, 3), sep |-> "\n\n", extra |-> ""]),
     ending |-> "\n"]

BareOutline ==
    [title |-> None, one_liner |-> None, overview |-> None, capabilities |-> None,
     workflows |-> None, benefits |-> None, security |-> None, faqs |-> None,
     ending |-> "Acme connects to Ruh AI.\nNo labels here."]

\* a page with every section
FullOutline == [BaseOutline EXCEPT !.workflows = Some("* Lead sync: New leads reach Acme.")]

\* the same page with an overview paragraph wrapped over two lines
WrappedOutline ==
    [FullOutline EXCEPT
        !.overview = Some("Ruh AI keeps Acme records current.\nIt runs every hour.")]

\* the same page with a capabilities section of two paragraphs
ParagraphsOutline ==
    [FullOutline EXCEPT
        !.capabilities = Some("Ruh AI syncs deals.\n\n* Deals: Pipeline stages.")]

\* a page whose title and one-liner lines hold only spaces
BlankTitleOutline == [FullOutline EXCEPT !.title = Some("  "), !.one_liner = Some(" ")]

\* a page with a title and FAQs and none of the rendered sections
TitleOnlyOutline ==
    [BareOutline EXCEPT !.title = Some("Acme <b> & Ruh AI"),
                        !.faqs = Some([pairs |-> SubSeq(FaqPairs, 1, 3), sep |-> "\n\n",
                                       extra |-> ""]),
                        !.ending = "\n"]

\* a page whose bulleted sections hold a bullet with two colons, an indented
\* bullet, lines that are no bullets, and a section without any bullet
BulletsOutline ==
    [FullOutline EXCEPT
        !.workflows = Some("Leads flow in.\nDeals flow out."),
        !.benefits = Some("* Timing: Runs at 09:00: daily.\n  * Indented item\nA plain line")]

\* a page whose third FAQ block has only a space for a question
BlankQuestionOutline ==
    [BaseOutline EXCEPT
        !.faqs = Some([pairs |-> SubSeq(FaqPairs, 1, 2), sep |-> "\n\n",
                       extra |-> "Q: \nA: An answer without its question."])]

Titles ==
    {None} \cup {Some(Text(n)) : n \in {59, 60, 61, 69, 70, 71, 100}}

OneLiners ==
    {None} \cup {Some(Text(n)) : n \in {159, 160, 161, 199, 200, 201}}

FaqSections ==
    {None} \cup
    {Some([pairs |-> SubSeq(FaqPairs, 1, k), sep |-> sep, extra |-> extra]) :
        k \in 0..MaxFaqPairs, sep \in {"\n", "\n\n"},
        extra \in {"", "Q: A question left without its answer?"}}

Outlines ==
    {[BaseOutline EXCEPT !.title = t] : t \in Titles}
    \cup {[BaseOutline EXCEPT !.one_liner = x] : x \in OneLiners}
    \cup {[BaseOutline EXCEPT !.faqs = f, !.ending = e] : f \in FaqSections, e \in {"", "\n"}}
    \cup {BaseOutline, BareOutline, FullOutline, WrappedOutline, ParagraphsOutline,
          BlankTitleOutline, TitleOnlyOutline, BulletsOutline, BlankQuestionOutline}

LongName == Repeat("Very Long Connector ", 8)

Connectors ==
    {[name |-> n, logo |-> "https://cdn.example/logo.png"] :
        n \in {"Acme", "Sales.Force (Inc.)", LongName}}

ParserCategories ==
    << [id |-> 8,  name |-> "CRM",   keywords |-> <<"acme">>],
       [id |-> 12, name |-> "Sales", keywords |-> <<"crm", "Sync">>] >>

ParserTags == << [id |-> 1, name |-> "Native", keywords |-> <<"oauth">>] >>

\* what may change before the next page is parsed: another page for the same
\* connector, another logo and taxonomy, or another connector
Regenerations ==
    { [outline |-> [BaseOutline EXCEPT !.title = None], logo |-> "keep",
       name |-> "keep", categories |-> ParserCategories],
      [outline |-> BareOutline, logo |-> "", name |-> "keep",
       categories |-> <<ParserCategories[2]>>],
      [outline |-> BaseOutline, logo |-> "keep", name |-> "Acme Two",
       categories |-> ParserCategories] }

-----------------------------------------------------------------------------
(* The parser as a state machine: a page file is written, then parsed *)

InitParser ==
    /\ NoGenerator
    /\ categories = ParserCategories
    /\ tags = ParserTags
    /\ loadable \in BOOLEAN
    /\ matched = [op |-> "none", connector_name |-> "", content |-> "",
                  max_results |-> 0, scores |-> <<>>, ids |-> <<>>]
    /\ outline \in Outlines
    /\ file_text = Render(outline)
    /\ connector \in Connectors
    /\ clock = "2026-01-01T00:00:00"
    /\ strapi_data = None
    /\ last_data = None

\* StrapiContentParser.parse_integration_page(file_path, name, logo_url)
ParsePage ==
    /\ strapi_data = None
    /\ strapi_data' = Some(parse_integration_page(file_text, connector.name,
                                                  connector.logo, clock))
    /\ UNCHANGED <<matcherVars, outline, file_text, connector, clock, last_data>>
    /\ UNCHANGED generatorVars

\* the next page is generated and its file written
WritePage ==
    /\ strapi_data # None
    /\ last_data = None
    /\ \E r \in Regenerations :
        /\ outline' = r.outline
        /\ file_text' = Render(r.outline)
        /\ connector' = [name |-> IF r.name = "keep" THEN connector.name ELSE r.name,
                         logo |-> IF r.logo = "keep" THEN connector.logo ELSE r.logo]
        /\ categories' = r.categories
    /\ clock' = "2026-01-01T00:00:05"
    /\ last_data' = strapi_data
    /\ strapi_data' = None
    /\ UNCHANGED <<tags, loadable, matched>>
    /\ UNCHANGED generatorVars

NextParser == ParsePage \/ WritePage

SpecParser == InitParser /\ [][NextParser]_vars

-----------------------------------------------------------------------------
(* The page generator: generate_integration_pages.py *)

MaxConnectors == 2     \* longest connector list explored
MaxCount == 2          \* largest count argument of generate_batch explored
MaxRuns == 2           \* commands run one after the other on the same list file

\* _load_connectors: the list of the file, [] when reading it raises
_load_connectors(file) == IF file.intact THEN file.connectors ELSE <<>>

\* _save_connectors: json.dump of the whole list; an exception is printed and
\* swallowed, leaving the file as it was (open raised) or cut short (dump raised)
_save_connectors(file, cs, save) ==
    IF save = "ok" THEN [intact |-> TRUE, connectors |-> cs]
    ELSE IF save = "open_raises" THEN file
    ELSE [intact |-> FALSE, connectors |-> <<>>]

_sanitize_filename(name) ==
    replace(replace(replace(lower(name), " ", "-"), "/", "-"), "\\", "-")

\* the first connector of the list, published or not
get_first(cs) == IF Len(cs) = 0 THEN 0 ELSE 1

\* get_next_unpublished: the first connector not published, as its position
\* in the list; 0 for None
get_next_unpublished(cs) ==
    LET pending == {k \in 1..Len(cs) : ~cs[k].published}
    IN  IF pending = {} THEN 0 ELSE MinOf(pending)

\* a get_status that names the last pending connector
get_status_last(cs) ==
    LET pending == {k \in 1..Len(cs) : ~cs[k].published}
    IN  [total |-> Len(cs), published |-> Len(cs) - Cardinality(pending),
         unpublished |-> Cardinality(pending),
         next |-> IF pending = {} THEN "None" ELSE cs[MaxOf(pending)].name]

\* get_status: the counts and the name of the next pending connector
get_status(cs) ==
    LET published == Cardinality({k \in 1..Len(cs) : cs[k].published})
    IN  [total |-> Len(cs), published |-> published, unpublished |-> Len(cs) - published,
         next |-> IF get_next_unpublished(cs) = 0 THEN "None"
                  ELSE cs[get_next_unpublished(cs)].name]

\* the command ends with print_status() on the list as it is in memory
Finished(r, cs) == [r EXCEPT !.done = TRUE, !.status = Some(get_status(cs))]

ErrorTextMax == 200

\* the response bodies response.json() parses
JsonBodies == {"{\"id\": 7}", "[]"}

\* a result dict of publish_integration; a key the dict lacks is None
Result(success, status_code, error, data) ==
    [success |-> success, status_code |-> status_code, error |-> error, data |-> data]

\* lines 59-73 with any 2xx status taken for a success
AfterResponseAny2xx(status_code, text) ==
    IF status_code \in 200..299
    THEN IF text \in JsonBodies
         THEN Result(TRUE, Some(status_code), None, Some(text))
         ELSE Result(FALSE, None, Some("Expecting value: line 1 column 1 (char 0)"), None)
    ELSE Result(FALSE, Some(status_code),
                Some("HTTP " \o ToString(status_code) \o ": " \o Prefix(text, ErrorTextMax)), None)

\* lines 59-73: the result for a response that arrived; response.json() raises
\* on a body that is no JSON, which the last except clause turns into a failure
AfterResponse(status_code, text) ==
    IF status_code \in {200, 201}
    THEN IF text \in JsonBodies
         THEN Result(TRUE, Some(status_code), None, Some(text))
         ELSE Result(FALSE, None, Some("Expecting value: line 1 column 1 (char 0)"), None)
    ELSE Result(FALSE, Some(status_code),
                Some("HTTP " \o ToString(status_code) \o ": " \o Prefix(text, ErrorTextMax)), None)

\* StrapiDirectClient.publish_integration, given what requests.post did: a
\* response with its status and body, or the exception it raised with its text
publish_integration(http) ==
    IF http.kind = "ConnectionError"
    THEN Result(FALSE, None, Some("Connection refused - Strapi server not running"), None)
    ELSE IF http.kind = "Timeout" THEN Result(FALSE, None, Some("Request timeout"), None)
    ELSE IF http.kind = "Exception" THEN Result(FALSE, None, Some(http.text), None)
    ELSE AfterResponse(http.status_code, http.text)

\* what open(output_path, 'w') and f.write(content) leave of a page file
WriteFile(files, path, how, content) ==
    IF how = "written" THEN {f \in files : f.path # path} \cup {[path |-> path, text |-> content[1]]}
    ELSE IF how = "cut" THEN {f \in files : f.path # path} \cup {[path |-> path, text |-> ""]}
    ELSE files

\* a call of generate_page that marks and saves only after a successful
\* CMS publish
PageOutcomeCmsGated(content, write, enabled, parse, http) ==
    LET posted == enabled /\ parse = "ok"
        ok == Truthy(content) /\ write = "ok"
        good == ok /\ (~enabled \/ (posted /\ publish_integration(http).success))
    IN  [file |-> IF ~Truthy(content) THEN "none" ELSE IF write = "ok" THEN "written" ELSE IF write = "write_raises" THEN "cut" ELSE "none",
         parsed |-> ok /\ enabled, posted |-> ok /\ posted,
         success |-> ok /\ posted /\ publish_integration(http).success,
         marked |-> good, saved |-> good, returned |-> good,
         steps |-> <<"generate">>
                   \o (IF Truthy(content) THEN <<"write">> ELSE <<>>)
                   \o (IF ok /\ enabled THEN <<"parse">> ELSE <<>>)
                   \o (IF ok /\ posted THEN <<"publish">> ELSE <<>>)
                   \o (IF good THEN <<"flag">> ELSE <<>>)
                   \o (IF good THEN <<"save">> ELSE <<>>)]

\* a call of generate_page that takes only None for a failed generation
PageOutcomeWritingEmpty(content, write, enabled, parse, http) ==
    LET posted == enabled /\ parse = "ok"
        ok == content # None /\ write = "ok"
    IN  [file |-> IF content = None THEN "none" ELSE IF write = "ok" THEN "written" ELSE IF write = "write_raises" THEN "cut" ELSE "none",
         parsed |-> ok /\ enabled, posted |-> ok /\ posted,
         success |-> ok /\ posted /\ publish_integration(http).success,
         marked |-> ok, saved |-> ok, returned |-> ok,
         steps |-> <<"generate">>
                   \o (IF content # None THEN <<"write">> ELSE <<>>)
                   \o (IF ok /\ enabled THEN <<"parse">> ELSE <<>>)
                   \o (IF ok /\ posted THEN <<"publish">> ELSE <<>>)
                   \o (IF ok THEN <<"flag">> ELSE <<>>)
                   \o (IF ok THEN <<"save">> ELSE <<>>)]

\* a call of generate_page that saves the list on every path
PageOutcomeSavingAlways(content, write, enabled, parse, http) ==
    LET posted == enabled /\ parse = "ok"
        ok == Truthy(content) /\ write = "ok"
    IN  [file |-> IF ~Truthy(content) THEN "none" ELSE IF write = "ok" THEN "written" ELSE IF write = "write_raises" THEN "cut" ELSE "none",
         parsed |-> ok /\ enabled, posted |-> ok /\ posted,
         success |-> ok /\ posted /\ publish_integration(http).success,
         marked |-> ok, saved |-> TRUE, returned |-> ok,
         steps |-> <<"generate">>
                   \o (IF Truthy(content) THEN <<"write">> ELSE <<>>)
                   \o (IF ok /\ enabled THEN <<"parse">> ELSE <<>>)
                   \o (IF ok /\ posted THEN <<"publish">> ELSE <<>>)
                   \o (IF ok THEN <<"flag">> ELSE <<>>)
                   \o (IF TRUE THEN <<"save">> ELSE <<>>)]

\* a call of generate_page that flags the connector whether or not the page
\* file could be written
PageOutcomeFlaggingUnwritten(content, write, enabled, parse, http) ==
    LET posted == enabled /\ parse = "ok"
        ok == Truthy(content) /\ write = "ok"
    IN  [file |-> IF ~Truthy(content) THEN "none" ELSE IF write = "ok" THEN "written" ELSE IF write = "write_raises" THEN "cut" ELSE "none",
         parsed |-> ok /\ enabled, posted |-> ok /\ posted,
         success |-> ok /\ posted /\ publish_integration(http).success,
         marked |-> Truthy(content), saved |-> Truthy(content), returned |-> Truthy(content),
         steps |-> <<"generate">>
                   \o (IF Truthy(content) THEN <<"write">> ELSE <<>>)
                   \o (IF ok /\ enabled THEN <<"parse">> ELSE <<>>)
                   \o (IF ok /\ posted THEN <<"publish">> ELSE <<>>)
                   \o (IF Truthy(content) THEN <<"flag">> ELSE <<>>)
                   \o (IF Truthy(content) THEN <<"save">> ELSE <<>>)]

\* generate_page, lines 105-150, as the steps it takes for the content the
\* agent returned and the outcomes of the file write, of the parse and of
\* the HTTP request
PageOutcome(content, write, enabled, parse, http) ==
    LET posted == enabled /\ parse = "ok"
        ok == Truthy(content) /\ write = "ok"
    IN  [file |-> IF ~Truthy(content) THEN "none" ELSE IF write = "ok" THEN "written" ELSE IF write = "write_raises" THEN "cut" ELSE "none",
         parsed |-> ok /\ enabled, posted |-> ok /\ posted,
         success |-> ok /\ posted /\ publish_integration(http).success,
         marked |-> ok, saved |-> ok, returned |-> ok,
         steps |-> <<"generate">>
                   \o (IF Truthy(content) THEN <<"write">> ELSE <<>>)
                   \o (IF ok /\ enabled THEN <<"parse">> ELSE <<>>)
                   \o (IF ok /\ posted THEN <<"publish">> ELSE <<>>)
                   \o (IF ok THEN <<"flag">> ELSE <<>>)
                   \o (IF ok THEN <<"save">> ELSE <<>>)]

\* the state generate_page leaves for the connector at position k
PageDone(k, c, path, content, save, o) ==
    /\ pages' = WriteFile(pages, path, o.file, content)
    /\ posts' = IF o.posted
                THEN Append(posts, [name |-> c.name, path |-> path, logo |-> c.logo, success |-> o.success])
                ELSE posts
    /\ connectors' = IF o.marked THEN [connectors EXCEPT ![k].published = TRUE]
                     ELSE connectors
    /\ list_file' = IF o.saved THEN _save_connectors(list_file, connectors', save)
                    ELSE list_file
    /\ last_call' = [index |-> k, name |-> c.name, content |-> content,
                file |-> o.file, parsed |-> o.parsed, posted |-> o.posted,
                success |-> o.success, marked |-> o.marked, saved |-> o.saved,
                returned |-> o.returned, steps |-> o.steps]

\* IntegrationPageGenerator.generate_page(connector), connector being the
\* record at position k of the list
generate_page(k, content, write, parse, http, save) ==
    PageDone(k, connectors[k], _sanitize_filename(connectors[k].name) \o ".txt", content,
             save, PageOutcome(content, write, enable_strapi, parse, http))

\* the tally of a batch that counts no failed item
TallySuccessOnly(r, k, returned) ==
    [r EXCEPT !.i = r.i + 1, !.attempted = Append(r.attempted, k),
              !.successful = IF returned THEN r.successful + 1 ELSE r.successful]

\* lines 178-181: one more item attempted, counted as successful or failed
Tally(r, k, returned) ==
    [r EXCEPT !.i = r.i + 1, !.attempted = Append(r.attempted, k),
              !.successful = IF returned THEN r.successful + 1 ELSE r.successful,
              !.failed = IF returned THEN r.failed ELSE r.failed + 1]

-----------------------------------------------------------------------------
(* Inputs of the generator *)

ConnectorPool ==
    << [name |-> "Acme", logo |-> "https://cdn.example.com/acme.png"],
       [name |-> "Acme CRM", logo |-> ""],
       [name |-> "Zeta/One", logo |-> ""] >>

PoolEntry(k) ==
    IF k <= Len(ConnectorPool) THEN ConnectorPool[k]
    ELSE [name |-> "Zeta " \o Repeat("I", k), logo |-> ""]

\* the connector lists a list file may hold
ConnectorLists ==
    UNION { { [k \in 1..n |-> [name |-> PoolEntry(k).name, logo |-> PoolEntry(k).logo,
                               published |-> flags[k]]] :
                flags \in [1..n -> BOOLEAN] } : n \in 0..MaxConnectors }

\* what agent.generate_integration_page(name) may return: None after an
\* exception, the stripped text of the model's answer otherwise
GeneratedContents(name) ==
    {None, Some(""), Some("[Title]\n" \o name \o " + Ruh AI\n\n[FAQs]\nQ: What syncs?\nA: Records.")}

WriteOutcomes == {"ok", "open_raises", "write_raises"}

ParseOutcomes == {"ok", "raises"}

\* what requests.post may do; the bodies a response may carry are JSON,
\* empty, plain text, and a text longer than the part of it an error message
\* keeps
HttpOutcomes ==
    { [kind |-> "response", status_code |-> c, text |-> t] :
         c \in {200, 201, 204, 404, 500},
         t \in JsonBodies \cup {"", "Not Found", Text(ErrorTextMax + 50)} }
    \cup { [kind |-> "ConnectionError", status_code |-> 0, text |-> ""],
           [kind |-> "Timeout", status_code |-> 0, text |-> ""],
           [kind |-> "Exception", status_code |-> 0, text |-> "Invalid URL"] }

Flags(cs) == [k \in 1..Len(cs) |-> cs[k].published]

-----------------------------------------------------------------------------
(* The generator as a state machine: the commands of main() *)

InitGenerator ==
    /\ categories = ParserCategories
    /\ tags = ParserTags
    /\ loadable = TRUE
    /\ matched = [op |-> "none", connector_name |-> "", content |-> "",
                  max_results |-> 0, scores |-> <<>>, ids |-> <<>>]
    /\ outline = None /\ file_text = "" /\ connector = [name |-> "", logo |-> ""]
    /\ clock = "" /\ strapi_data = None /\ last_data = None
    /\ \E cs \in ConnectorLists : list_file = [intact |-> TRUE, connectors |-> cs]
    /\ connectors = _load_connectors(list_file)
    /\ pages = {}
    /\ enable_strapi \in BOOLEAN
    /\ posts = <<>>
    /\ run = IdleRun
    /\ last_call = NoCall

\* a command starts when none ran yet or the one before has ended: main()
\* builds a generator, which loads the list file; a caller that holds a
\* generator may run its next command on it, with the list it has in memory
Start ==
    /\ run.command = "idle" \/ run.done
    /\ run.runs < MaxRuns
    /\ \/ connectors' = _load_connectors(list_file)
       \/ run.done /\ connectors' = connectors
    /\ \E command \in {"status", "next", "batch"}, n \in 0..MaxCount :
          /\ command # "batch" => n = 1
          /\ run' = [command |-> command, count |-> n, i |-> 0, successful |-> 0,
                     failed |-> 0, attempted |-> <<>>, before |-> Flags(connectors'),
                     done |-> FALSE, runs |-> run.runs + 1, status |-> None]
    /\ UNCHANGED <<matcherVars, parserVars, list_file, pages, enable_strapi, posts, last_call>>

\* one call of generate_page on the first pending connector, for every
\* content the agent may return and every outcome of the input and output
PageCall ==
    \E content \in GeneratedContents(connectors[get_next_unpublished(connectors)].name) :
       \E write \in IF Truthy(content) THEN WriteOutcomes ELSE {"ok"} :
          \E parse \in IF Truthy(content) /\ write = "ok" /\ enable_strapi THEN ParseOutcomes ELSE {"ok"} :
             \E http \in IF Truthy(content) /\ write = "ok" /\ enable_strapi /\ parse = "ok" THEN HttpOutcomes ELSE {[kind |-> "ConnectionError", status_code |-> 0, text |-> ""]} :
                \E save \in IF Truthy(content) /\ write = "ok" THEN WriteOutcomes ELSE {"ok"} :
                   generate_page(get_next_unpublished(connectors), content, write, parse, http, save)

\* main() with command status: print_status()
PrintStatus ==
    /\ run.command = "status" /\ ~run.done
    /\ run' = Finished(run, connectors)
    /\ UNCHANGED <<matcherVars, parserVars, connectors, list_file, pages, enable_strapi, posts, last_call>>

\* generate_next with a pending connector, then print_status()
GenerateNext ==
    /\ run.command = "next" /\ ~run.done
    /\ get_next_unpublished(connectors) # 0
    /\ PageCall
    /\ run' = Finished(Tally(run, last_call'.index, last_call'.returned), connectors')
    /\ UNCHANGED <<matcherVars, parserVars, enable_strapi>>

\* generate_next with no pending connector: returns False
NextNonePending ==
    /\ run.command = "next" /\ ~run.done
    /\ get_next_unpublished(connectors) = 0
    /\ run' = Finished(run, connectors)
    /\ UNCHANGED <<matcherVars, parserVars, connectors, list_file, pages, enable_strapi, posts, last_call>>

\* one pass of the loop of generate_batch with a pending connector
BatchItem ==
    /\ run.command = "batch" /\ ~run.done
    /\ run.i < run.count
    /\ get_next_unpublished(connectors) # 0
    /\ PageCall
    /\ run' = Tally(run, last_call'.index, last_call'.returned)
    /\ UNCHANGED <<matcherVars, parserVars, enable_strapi>>

\* lines 172-174: no pending connector, the loop is left
BatchBreak ==
    /\ run.command = "batch" /\ ~run.done
    /\ run.i < run.count
    /\ get_next_unpublished(connectors) = 0
    /\ run' = Finished(run, connectors)
    /\ UNCHANGED <<matcherVars, parserVars, connectors, list_file, pages, enable_strapi, posts, last_call>>

\* range(count) is used up: the tally and the status are printed
BatchExhausted ==
    /\ run.command = "batch" /\ ~run.done
    /\ run.i >= run.count
    /\ run' = Finished(run, connectors)
    /\ UNCHANGED <<matcherVars, parserVars, connectors, list_file, pages, enable_strapi, posts, last_call>>

NextGenerator ==
    \/ Start
    \/ PrintStatus
    \/ GenerateNext
    \/ NextNonePending
    \/ BatchItem
    \/ BatchBreak
    \/ BatchExhausted

SpecGenerator == InitGenerator /\ [][NextGenerator]_vars

-----------------------------------------------------------------------------
(* The CMS client as a state machine: calls of publish_integration *)

MaxPosts == 2          \* most calls of publish_integration explored in a row

InitClient ==
    /\ categories = ParserCategories
    /\ tags = ParserTags
    /\ loadable = TRUE
    /\ matched = [op |-> "none", connector_name |-> "", content |-> "",
                  max_results |-> 0, scores |-> <<>>, ids |-> <<>>]
    /\ outline = None /\ file_text = "" /\ connector = [name |-> "", logo |-> ""]
    /\ clock = "" /\ strapi_data = None /\ last_data = None
    /\ NoGenerator

\* publish_integration(integration_data): the request is made and its outcome
\* turned into a result
Publish ==
    /\ Len(posts) < MaxPosts
    /\ \E http \in HttpOutcomes :
          posts' = Append(posts, [name |-> "Acme", response |-> http,
                                  result |-> publish_integration(http)])
    /\ UNCHANGED <<matcherVars, parserVars, connectors, list_file, pages, enable_strapi, run, last_call>>

SpecClient == InitClient /\ [][Publish]_vars

-----------------------------------------------------------------------------
(* Claims about the matcher *)

\* the taxonomy the last call scored
TaxonomyOf(op) == IF op = "match_categories" THEN categories ELSE tags

PositionOfId(taxonomy, id) == CHOOSE i \in 1..Len(taxonomy) : taxonomy[i].id = id

\* the score the last call gave the entry with this id (0: the entry was not kept)
ScoreGiven(id) ==
    IF \E k \in 1..Len(matched.scores) : matched.scores[k].id = id
    THEN matched.scores[CHOOSE k \in 1..Len(matched.scores) :
                           matched.scores[k].id = id].score
    ELSE 0

Haystack == TextToAnalyze(matched.connector_name, matched.content)

\* C1: match_categories and match_tags return at most max_results ids, no id
\* twice, ordered by non-increasing score, equal scores in taxonomy order.
C1_TopIdsRanked ==
    matched.op # "none" =>
        LET ids == matched.ids
            taxonomy == TaxonomyOf(matched.op)
        IN  /\ Len(ids) <= matched.max_results
            /\ \A i, j \in 1..Len(ids) : i # j => ids[i] # ids[j]
            /\ \A i \in 1..Len(ids) : \E k \in 1..Len(taxonomy) : taxonomy[k].id = ids[i]
            /\ \A i, j \in 1..Len(ids) :
                  i < j =>
                    \/ ScoreGiven(ids[i]) > ScoreGiven(ids[j])
                    \/ /\ ScoreGiven(ids[i]) = ScoreGiven(ids[j])
                       /\ PositionOfId(taxonomy, ids[i]) < PositionOfId(taxonomy, ids[j])

\* a call that had more scored entries than max_results and returned a tie
C1_Witness ==
    /\ matched.op = "match_categories"
    /\ Len(matched.scores) > matched.max_results
    /\ Len(matched.ids) = 2
    /\ ScoreGiven(matched.ids[1]) = ScoreGiven(matched.ids[2])

\* the crafted case: name "Acme", a category whose only keyword is "acme", one
\* whose only keyword is unrelated, the content holding each keyword twice
C2_Crafted ==
    /\ matched.op = "match_categories"
    /\ matched.connector_name = "Acme"
    /\ \E i, j \in 1..Len(categories) :
          /\ categories[i].id = 8 /\ categories[i].keywords = <<"acme">>
          /\ categories[j].id = 12 /\ categories[j].keywords = <<"crm">>
    /\ count(lower(matched.content), "acme") = 2
    /\ count(lower(matched.content), "crm") = 2

\* C2 as stated: the crafted case scores 20 for "acme" and 4 for the other.
C2_Scores20And4 == C2_Crafted => ScoreGiven(8) = 20 /\ ScoreGiven(12) = 4

\* C2 amended: the name itself is part of the text that is counted, so the
\* "acme" entry scores 30 (3 occurrences at weight 10); a one-word keyword
\* that is no part of the name scores 4 (2 occurrences at weight 2).
C2_Scores30And4 ==
    (matched.op = "match_categories" /\ matched.connector_name = "Acme") =>
        \A i \in 1..Len(categories) :
            LET e == categories[i]
                k == lower(e.keywords[1])
            IN  (Len(e.keywords) = 1 /\ count(lower(matched.content), k) = 2) =>
                    /\ k = "acme" => ScoreGiven(e.id) = 30
                    /\ (~Contains("acme", k) /\ ~Contains(k, " ")) => ScoreGiven(e.id) = 4

C2_Witness == C2_Crafted /\ ScoreGiven(8) = 30 /\ ScoreGiven(12) = 4

\* C3: an entry none of whose keywords occurs in the haystack is not returned,
\* and every returned id belongs to an entry scored above 0.
C3_NoZeroScoreReturned ==
    matched.op # "none" =>
        LET taxonomy == TaxonomyOf(matched.op)
        IN  /\ \A k \in 1..Len(taxonomy) :
                  (\A m \in 1..Len(taxonomy[k].keywords) :
                      ~Contains(Haystack, lower(taxonomy[k].keywords[m])))
                  => \A i \in 1..Len(matched.ids) : matched.ids[i] # taxonomy[k].id
            /\ \A i \in 1..Len(matched.ids) : ScoreGiven(matched.ids[i]) > 0

\* fewer than max_results entries matched while another entry matched nothing
C3_Witness ==
    /\ matched.op # "none"
    /\ Len(matched.ids) >= 1
    /\ Len(matched.ids) < matched.max_results
    /\ Len(matched.ids) < Len(TaxonomyOf(matched.op))

-----------------------------------------------------------------------------
(* Claims about the parser *)

\* the extracted [Title] and [FAQs] sections of the page file
ExtractedTitle == _extract_section(file_text, SectionPattern("[Title]"), FALSE)

ExtractedFaqs == _extract_section(file_text, FaqsPattern, TRUE)

\* the page holds a FAQs section made of exactly n well-formed pairs
WellFormedPairs(n) ==
    /\ strapi_data # None
    /\ outline.faqs # None
    /\ outline.faqs[1].extra = ""
    /\ Len(outline.faqs[1].pairs) = n

\* C4: a FAQs section of exactly 2 well-formed Q:/A: pairs gives the fixed
\* fallback set; one of exactly 3 gives those 3 pairs, in order, unchanged.
C4_TwoFallBackThreeKept ==
    /\ WellFormedPairs(2) =>
           strapi_data[1].faqs = _generate_faqs(connector.name, None, None)
    /\ WellFormedPairs(3) => strapi_data[1].faqs = outline.faqs[1].pairs

\* a page with exactly 3 pairs, one of them with an answer of two lines, parsed
C4_Witness ==
    /\ WellFormedPairs(3)
    /\ outline.faqs[1].sep = "\n"
    /\ Len(strapi_data[1].faqs) = 3
    /\ Contains(strapi_data[1].faqs[2].answer, "\n")

\* C5: faqs is the parsed list when it has at least 3 pairs, else the fallback
\* list built from the connector name alone; it has at least 3 pairs.
C5_ParsedOrFallback ==
    strapi_data # None =>
        LET parsed == _parse_faqs(ExtractedFaqs)
        IN  /\ strapi_data[1].faqs =
                  IF Len(parsed) >= MinFaqs THEN parsed
                  ELSE _generate_faqs(connector.name, None, None)
            /\ Len(strapi_data[1].faqs) >= MinFaqs

\* two pairs were parsed and none of them is in the payload
C5_Witness ==
    /\ strapi_data # None
    /\ Len(_parse_faqs(ExtractedFaqs)) = 2
    /\ Len(strapi_data[1].faqs) = 5
    /\ \A k \in 1..5 : strapi_data[1].faqs[k] \notin
                           {FaqPairs[i] : i \in 1..Len(FaqPairs)}

\* C6 as stated: the slug of "Sales.Force (Inc.)" is "salesforce-inc".
C6_SlugSalesforceInc ==
    (strapi_data # None /\ connector.name = "Sales.Force (Inc.)") =>
        strapi_data[1].slug = "salesforce-inc"

\* C6 amended: each '.' becomes a hyphen, so the slug of "Sales.Force (Inc.)"
\* is "sales-force-inc-".
C6_SlugSalesForceIncHyphen ==
    (strapi_data # None /\ connector.name = "Sales.Force (Inc.)") =>
        strapi_data[1].slug = "sales-force-inc-"

C6_Witness ==
    /\ strapi_data # None
    /\ connector.name = "Sales.Force (Inc.)"
    /\ strapi_data[1].slug = "sales-force-inc-"

\* the characters a slug never holds
SlugClean(slug) ==
    \A i \in 1..Len(slug) : Ch(slug, i) \notin UpperLetters \cup {" ", "(", ")", "."}

\* C7: the slug holds no uppercase letter, space, parenthesis or dot, and two
\* assemblies with the same connector name give the same slug.
C7_SlugFromNameOnly ==
    /\ strapi_data # None => SlugClean(strapi_data[1].slug)
    /\ last_data # None => SlugClean(last_data[1].slug)
    /\ (strapi_data # None /\ last_data # None
           /\ strapi_data[1].name = last_data[1].name)
       => strapi_data[1].slug = last_data[1].slug

\* the same name assembled twice, with another page, logo and taxonomy
C7_Witness ==
    /\ strapi_data # None /\ last_data # None
    /\ strapi_data[1].name = "Sales.Force (Inc.)"
    /\ last_data[1].name = "Sales.Force (Inc.)"
    /\ strapi_data[1].content # last_data[1].content
    /\ strapi_data[1].icon # last_data[1].icon
    /\ strapi_data[1].category # last_data[1].category

\* C8: an extracted title of 100 characters gives its first 60 as metaTitle and
\* its first 70 as ogTitle.
C8_TitleOf100Cut ==
    (strapi_data # None /\ ExtractedTitle # None /\ Len(ExtractedTitle[1]) = 100) =>
        /\ strapi_data[1].seo.metaTitle = SubSeq(ExtractedTitle[1], 1, 60)
        /\ strapi_data[1].seo.openGraph.ogTitle = SubSeq(ExtractedTitle[1], 1, 70)

C8_Witness ==
    /\ strapi_data # None
    /\ ExtractedTitle # None
    /\ Len(ExtractedTitle[1]) = 100
    /\ Len(strapi_data[1].seo.metaTitle) = 60
    /\ Len(strapi_data[1].seo.openGraph.ogTitle) = 70

\* C9 as stated: metaTitle, ogTitle and twitterTitle are heroTitle cut to 60,
\* 70 and 70 characters, for every page.
C9_TitlesFromHero ==
    strapi_data # None =>
        LET d == strapi_data[1]
        IN  /\ d.seo.metaTitle = Prefix(d.heroTitle, MetaTitleMax)
            /\ d.seo.openGraph.ogTitle = Prefix(d.heroTitle, OgTitleMax)
            /\ d.seo.twitterCard.twitterTitle = Prefix(d.heroTitle, TwitterTitleMax)

\* C9 amended: ogTitle is heroTitle cut to 70 for every page; metaTitle and
\* twitterTitle are heroTitle cut to 60 and 70 when a non-empty title was
\* extracted, and else their own default texts "{name} Integration - Ruh AI"
\* and "{name} + Ruh AI", cut to 60 and 70.
C9_TitlesFromHeroOrOwnDefault ==
    strapi_data # None =>
        LET d == strapi_data[1]
        IN  /\ d.seo.openGraph.ogTitle = Prefix(d.heroTitle, OgTitleMax)
            /\ Truthy(ExtractedTitle) =>
                  /\ d.heroTitle = ExtractedTitle[1]
                  /\ d.seo.metaTitle = Prefix(d.heroTitle, MetaTitleMax)
                  /\ d.seo.twitterCard.twitterTitle = Prefix(d.heroTitle, TwitterTitleMax)
            /\ ~Truthy(ExtractedTitle) =>
                  /\ d.heroTitle = d.name \o " + Ruh AI Integration"
                  /\ d.seo.metaTitle =
                         Prefix(d.name \o " Integration - Ruh AI", MetaTitleMax)
                  /\ d.seo.twitterCard.twitterTitle =
                         Prefix(d.name \o " + Ruh AI", TwitterTitleMax)

\* a page without a [Title] section, parsed
C9_Witness ==
    /\ strapi_data # None
    /\ outline.title = None
    /\ outline.overview # None
    /\ strapi_data[1].heroTitle = "Acme + Ruh AI Integration"
    /\ strapi_data[1].seo.twitterCard.twitterTitle = "Acme + Ruh AI"

\* C10: the six capped seo fields never exceed 60, 70, 70, 160, 200 and 200
\* characters, whether their value is extracted or a default.
C10_CapsHold ==
    strapi_data # None =>
        LET seo == strapi_data[1].seo
        IN  /\ Len(seo.metaTitle) <= 60
            /\ Len(seo.openGraph.ogTitle) <= 70
            /\ Len(seo.twitterCard.twitterTitle) <= 70
            /\ Len(seo.metaDescription) <= 160
            /\ Len(seo.openGraph.ogDescription) <= 200
            /\ Len(seo.twitterCard.twitterDescription) <= 200

\* a default description that had to be cut: no one-liner and a long name
C10_Witness ==
    /\ strapi_data # None
    /\ outline.one_liner = None
    /\ Len("Integrate " \o connector.name
              \o " with Ruh AI for intelligent automation.") > 200
    /\ Len(strapi_data[1].seo.openGraph.ogDescription) = 200

\* C11: when the matcher cannot be built or scoring fails, the payload is
\* still returned, category and tags are empty and every other field is what
\* it is when classification succeeds.
C11_FailedMatcherEmptiesOnlyIds ==
    (strapi_data # None /\ ~loadable) =>
        /\ strapi_data[1].category = <<>>
        /\ strapi_data[1].tags = <<>>
        /\ strapi_data[1] =
              [PayloadWith(file_text, connector.name, connector.logo, clock,
                           ClassifyLoaded(connector.name, file_text))
                  EXCEPT !.category = <<>>, !.tags = <<>>]

\* a failed matcher on a page that a working matcher gives a category and a tag
C11_Witness ==
    /\ strapi_data # None
    /\ ~loadable
    /\ ClassifyLoaded(connector.name, file_text).category # <<>>
    /\ ClassifyLoaded(connector.name, file_text).tags # <<>>
    /\ strapi_data[1].category = <<>>
    /\ strapi_data[1].content # ""

\* the headings _build_html_content writes, in its order
Headings ==
    <<[key |-> "overview", h |-> "<h2>Overview</h2>"],
      [key |-> "capabilities", h |-> "<h2>Core Capabilities</h2>"],
      [key |-> "workflows", h |-> "<h2>Common Automation Workflows</h2>"],
      [key |-> "benefits", h |-> "<h2>Key Benefits</h2>"],
      [key |-> "security", h |-> "<h2>Security and Permissions</h2>"]>>

\* the page file holds each of the eight labeled sections with a text
AllSectionsWritten ==
    \A k \in 1..Len(SectionOrder) :
        /\ outline[SectionOrder[k]] # None
        /\ SectionOrder[k] # "faqs" => strip(outline[SectionOrder[k]][1]) # ""

\* C12 as stated: a page with all labeled sections gets a non-empty content
\* with the five headings in order and none for the title or the one-liner;
\* a section missing from the page gets no heading.
C12_AllHeadingsInOrder ==
    strapi_data # None =>
        LET html == strapi_data[1].content
        IN  /\ AllSectionsWritten =>
                  /\ html # ""
                  /\ \A k \in 1..Len(Headings) : Contains(html, Headings[k].h)
                  /\ \A k \in 1..(Len(Headings) - 1) :
                        MinOf(Occurrences(html, Headings[k].h))
                            < MinOf(Occurrences(html, Headings[k + 1].h))
                  /\ ~Contains(html, "Title")
                  /\ ~Contains(html, "One-line connector statement")
            /\ \A k \in 1..Len(Headings) :
                  outline[Headings[k].key] = None => ~Contains(html, Headings[k].h)

\* the multiline flag parse_integration_page gives each section
Multiline ==
    [title |-> FALSE, one_liner |-> FALSE, overview |-> FALSE, capabilities |-> TRUE,
     workflows |-> TRUE, benefits |-> TRUE, security |-> TRUE]

\* C13 as stated: every section written with a text is extracted as that
\* text, trimmed, in full, whatever its multiline flag and however many lines
\* or paragraphs it holds.
C13_SectionsExtractedInFull ==
    \A k \in 1..(Len(SectionOrder) - 1) :
        LET key == SectionOrder[k]
        IN  (outline # None /\ outline[key] # None /\ strip(outline[key][1]) # "") =>
                _extract_section(file_text, SectionPattern(SectionLabels[key]),
                                 Multiline[key])
                    = Some(strip(outline[key][1]))

ExtractedOneLiner ==
    _extract_section(file_text, SectionPattern("[One-line connector statement]"), FALSE)

\* C14 as stated: the default heroTitle / description is used only when the
\* label is absent; an empty extraction gives an empty field.
C14_DefaultOnlyWhenAbsent ==
    strapi_data # None =>
        /\ ExtractedTitle = Some("") => strapi_data[1].heroTitle = ""
        /\ ExtractedOneLiner = Some("") => strapi_data[1].description = ""
        /\ strapi_data[1].heroTitle = connector.name \o " + Ruh AI Integration"
              => ExtractedTitle = None
        /\ strapi_data[1].description
                  = "Integration between " \o connector.name \o " and Ruh AI"
              => ExtractedOneLiner = None

\* C14 amended: the default is used when extraction gives no value and also
\* when it gives the empty string; else the field is the extracted text.
C14_DefaultWhenAbsentOrEmpty ==
    strapi_data # None =>
        /\ strapi_data[1].heroTitle =
              IF ExtractedTitle = None \/ ExtractedTitle = Some("")
              THEN connector.name \o " + Ruh AI Integration"
              ELSE ExtractedTitle[1]
        /\ strapi_data[1].description =
              IF ExtractedOneLiner = None \/ ExtractedOneLiner = Some("")
              THEN "Integration between " \o connector.name \o " and Ruh AI"
              ELSE ExtractedOneLiner[1]

\* a page whose [Title] and one-liner labels are present and extract as ""
C14_Witness ==
    /\ strapi_data # None
    /\ ExtractedTitle = Some("")
    /\ ExtractedOneLiner = Some("")
    /\ strapi_data[1].heroTitle = connector.name \o " + Ruh AI Integration"

\* some section of the page file extracts to a value
SomeSectionExtracted ==
    \/ \E k \in 1..(Len(SectionOrder) - 1) :
          _extract_section(file_text, SectionPattern(SectionLabels[SectionOrder[k]]),
                           Multiline[SectionOrder[k]]) # None
    \/ ExtractedFaqs # None

\* one of the five rendered sections extracts to a non-empty text
SomeRenderedSection ==
    \E k \in 1..Len(Headings) :
        Truthy(_extract_section(file_text,
                                SectionPattern(SectionLabels[Headings[k].key]),
                                Multiline[Headings[k].key]))

\* the raw text as one block, each line break replaced by <br>
RawBlock == "<div>" \o replace(file_text, "\n", "<br>") \o "</div>"

\* C15 as stated: content is the whole raw text as one block exactly when no
\* section extracts, and the rendered sections otherwise; it is never empty.
C15_RawBlockIffNothingExtracted ==
    strapi_data # None =>
        /\ strapi_data[1].content # ""
        /\ (strapi_data[1].content = RawBlock) <=> ~SomeSectionExtracted

\* C15 amended: content is the whole raw text as one block exactly when none
\* of the five rendered sections extracts a non-empty text, whatever the
\* title, the one-liner and the FAQs give; otherwise it starts with the
\* heading of a rendered section; it is never empty.
C15_RawBlockIffNothingRendered ==
    strapi_data # None =>
        /\ strapi_data[1].content # ""
        /\ ~SomeRenderedSection => strapi_data[1].content = RawBlock
        /\ SomeRenderedSection =>
              /\ strapi_data[1].content # RawBlock
              /\ \E k \in 1..Len(Headings) :
                    StartsAt(strapi_data[1].content, Headings[k].h, 1)

\* a page whose title and FAQs extract and whose content is the raw block
C15_Witness ==
    /\ strapi_data # None
    /\ Truthy(ExtractedTitle)
    /\ ExtractedFaqs # None
    /\ strapi_data[1].content = RawBlock
    /\ Contains(strapi_data[1].content, "<br>Acme <b> & Ruh AI<br>")

\* C23 as stated: seo.keywords is made of the words of at least 4 letters of
\* the extracted title, one-liner and overview, lowercased, without the stop
\* words, with the 4 fixed keywords, sorted, cut to 15 and joined by ", ".
C23_KeywordsFromThreeSections ==
    strapi_data # None =>
        strapi_data[1].seo.keywords =
            join(", ",
                 Prefix(sorted(TitleWords(ExtractedTitle)
                                 \cup TitleWords(ExtractedOneLiner)
                                 \cup TitleWords(_extract_section(file_text, SectionPattern("[Overview paragraph]"), FALSE))
                                 \cup {"integration", "automation", "workflow", "ruh ai"}),
                        MaxKeywords))

\* C24: in every payload seo.metaRobots is "index follow" and seo.metaViewport
\* is "width=device-width initial-scale=1", whatever the page and the name,
\* and neither holds a comma.
C24_RobotsAndViewportFixed ==
    \A d \in {strapi_data, last_data} :
        d # None =>
            /\ d[1].seo.metaRobots = "index follow"
            /\ d[1].seo.metaViewport = "width=device-width initial-scale=1"
            /\ ~Contains(d[1].seo.metaRobots, ",")
            /\ ~Contains(d[1].seo.metaViewport, ",")

\* two pages of different names parsed one after the other
C24_Witness ==
    /\ strapi_data # None /\ last_data # None
    /\ strapi_data[1].name # last_data[1].name
    /\ strapi_data[1].content # last_data[1].content
    /\ strapi_data[1].seo.metaRobots = last_data[1].seo.metaRobots

\* C25: in Core Capabilities, Common Automation Workflows and Key Benefits
\* every line whose first non-blank character is the bullet marker becomes
\* exactly one list item, in order: with a colon, the text before the first
\* colon is the emphasized label and all the text after it the body; without
\* one, a plain item.  The other lines give no item when the section has a
\* bullet line, and a section without bullet lines is one paragraph.  The
\* rendered section is followed by the next heading or ends the content.
C25_BulletLinesBecomeItems ==
    strapi_data # None =>
        \A k \in 2..4 :
            LET text == _extract_section(file_text, SectionPattern(SectionLabels[Headings[k].key]), TRUE)
                IsBullet(line) == StartsAt(strip(line), "*", 1)
                FirstColon(item) == CHOOSE c \in 1..Len(item) :
                                        /\ Ch(item, c) = ":"
                                        /\ \A j \in 1..(c - 1) : Ch(item, j) # ":"
                Item(item) ==
                    IF \E c \in 1..Len(item) : Ch(item, c) = ":"
                    THEN "<li><p><span style='font-weight: 600;'>"
                         \o strip(SubSeq(item, 1, FirstColon(item) - 1)) \o ":</span> "
                         \o strip(SubSeq(item, FirstColon(item) + 1, Len(item)))
                         \o "</p></li>"
                    ELSE "<li><p>" \o item \o "</p></li>"
                ItemOfLine(line) == Item(strip(SubSeq(strip(line), 2, Len(strip(line)))))
                Items(bullets) == [b \in 1..Len(bullets) |-> ItemOfLine(bullets[b])]
                Expected(t) ==
                    IF SelectSeq(split(t, "\n"), IsBullet) = <<>>
                    THEN "<p>" \o t \o "</p>"
                    ELSE "<ul>\n" \o join("\n", Items(SelectSeq(split(t, "\n"), IsBullet)))
                         \o "\n</ul>"
            IN  Truthy(text) =>
                    Contains(strapi_data[1].content \o "\n<h2>",
                             Headings[k].h \o "\n" \o Expected(text[1]) \o "\n<h2>")

\* the parsed page whose benefits hold a bullet with two colons, an indented
\* bullet and a plain line, and whose workflows hold no bullet
C25_Witness ==
    /\ strapi_data # None
    /\ outline = BulletsOutline
    /\ Contains(strapi_data[1].content,
                "<li><p><span style='font-weight: 600;'>Timing:</span> Runs at 09:00: daily.</p></li>\n<li><p>Indented item</p></li>\n</ul>")
    /\ Contains(strapi_data[1].content, "<p>Leads flow in.\nDeals flow out.</p>")
    /\ ~Contains(strapi_data[1].content, "A plain line")

\* C26 as stated: every pair _parse_faqs returns has a non-empty question and
\* a non-empty answer; a block with an empty or blank question or answer is
\* dropped and does not count toward the threshold of 3 pairs.
C26_NoEmptyQuestionOrAnswer ==
    strapi_data # None =>
        /\ \A k \in 1..Len(_parse_faqs(ExtractedFaqs)) :
              /\ _parse_faqs(ExtractedFaqs)[k].question # ""
              /\ _parse_faqs(ExtractedFaqs)[k].answer # ""
        /\ \A k \in 1..Len(strapi_data[1].faqs) :
              /\ strapi_data[1].faqs[k].question # ""
              /\ strapi_data[1].faqs[k].answer # ""

-----------------------------------------------------------------------------
(* Claims about the generator *)

\* the step is a call of generate_page: one more item of the command counted
PageCalled == run'.i = run.i + 1

\* C16: once the agent returned content and the page file was written,
\* generate_page returns True and the connector's published flag is true,
\* whether the CMS publish succeeded, gave a failure result, the parse
\* raised, or publishing is disabled.
C16_WrittenPageIsMarkedPublished ==
    [][(PageCalled /\ Truthy(last_call'.content) /\ last_call'.file = "written") =>
          /\ last_call'.returned
          /\ last_call'.marked
          /\ connectors'[last_call'.index].published]_vars

\* a page was written, its CMS publish gave a failure result, and the
\* connector is marked published all the same
C16_Witness ==
    /\ last_call.file = "written"
    /\ last_call.posted /\ ~last_call.success
    /\ last_call.returned
    /\ connectors[last_call.index].published

\* C17: when the agent returns no content (None after an exception, or an
\* empty text), generate_page returns False, writes no page file, makes no
\* publish call, leaves the published flag false and the list file alone.
C17_FailedGenerationChangesNothing ==
    [][(PageCalled /\ ~Truthy(last_call'.content)) =>
          /\ ~last_call'.returned
          /\ pages' = pages
          /\ posts' = posts
          /\ ~connectors'[last_call'.index].published
          /\ connectors' = connectors
          /\ ~last_call'.saved
          /\ list_file' = list_file]_vars

\* a call whose generation failed
C17_Witness ==
    /\ last_call.index # 0
    /\ last_call.content = None
    /\ ~last_call.returned
    /\ ~connectors[last_call.index].published

\* C18 as stated: in a batch run no connector is attempted more than once;
\* after a failed item the batch goes on with another pending connector.
C18_NoConnectorAttemptedTwice ==
    run.command = "batch" =>
        \A p, q \in 1..Len(run.attempted) : p # q => run.attempted[p] # run.attempted[q]

\* the connectors whose flag went from false to true since the command began
Flipped == {k \in 1..Len(connectors) : ~run.before[k] /\ connectors[k].published}

\* C19: generate_batch(count) attempts at most count items, each of them a
\* pending connector, and ends early only when none is pending; successful
\* plus failed is the number of items attempted, and successful is the
\* number of connectors whose flag went from false to true in the run.
C19_BatchTally ==
    run.command = "batch" =>
        /\ Len(run.attempted) <= run.count
        /\ run.successful + run.failed = Len(run.attempted)
        /\ run.successful = Cardinality(Flipped)
        /\ \A p \in 1..Len(run.attempted) : ~run.before[run.attempted[p]]
        /\ (run.done /\ Len(run.attempted) < run.count) =>
              get_next_unpublished(connectors) = 0

\* a batch that ended with an item succeeded and an item failed
C19_Witness ==
    /\ run.command = "batch" /\ run.done
    /\ run.successful >= 1 /\ run.failed >= 1
    /\ Cardinality(Flipped) = run.successful

\* C20 as stated: after every processed item, succeeded or failed, the
\* connector list file is rewritten.
C20_ListSavedAfterEveryItem == last_call.index # 0 => last_call.saved

\* C20 amended: _save_connectors is called exactly for the items for which
\* generate_page returns True; it then writes the whole list with the new
\* flag, unless the write itself raises, which leaves the file as it was or
\* cut short; after a failed item the list file is not touched.
C20_ListSavedAfterSuccessOnly ==
    [][PageCalled =>
          /\ last_call'.saved = last_call'.returned
          /\ ~last_call'.returned => list_file' = list_file
          /\ last_call'.returned =>
                \/ list_file' = [intact |-> TRUE, connectors |-> connectors']
                \/ list_file' = list_file
                \/ ~list_file'.intact]_vars

\* an item succeeded and the list file holds the whole list with its flag set
C20_Witness ==
    /\ last_call.returned /\ last_call.saved
    /\ list_file = [intact |-> TRUE, connectors |-> connectors]
    /\ Len(connectors) > 1
    /\ list_file.connectors[last_call.index].published

\* C22: the status a command prints has published + unpublished = total, the
\* counts of the list in memory, and as next the name of the first connector
\* in list order that is not published ("None" when there is none); every
\* call of generate_page, of next and of batch, is for the connector get_status
\* names just before it.
C22_StatusNamesTheNextConnector ==
    /\ [](run.status # None =>
            LET s == run.status[1]
                pending == {k \in 1..Len(connectors) : ~connectors[k].published}
            IN  /\ s.total = Len(connectors)
                /\ s.published + s.unpublished = s.total
                /\ s.unpublished = Cardinality(pending)
                /\ s.next = IF pending = {} THEN "None"
                            ELSE connectors[MinOf(pending)].name)
    /\ [][PageCalled => last_call'.name = get_status(connectors).next]_vars

\* a status printed for a list whose second connector is the first pending one
C22_Witness ==
    /\ run.status # None
    /\ Len(connectors) = 2
    /\ connectors[1].published /\ ~connectors[2].published
    /\ run.status[1].next = connectors[2].name
    /\ run.status[1].published = 1 /\ run.status[1].unpublished = 1

\* C27: while commands run on one generator the list keeps its length and no
\* published flag goes from true to false; between commands the list is the
\* same or the list file loaded anew; and generate_page is only called for,
\* and only publishes, a connector that was not flagged when the command
\* began, hence not when the list was loaded.
C27_PublishedStaysPublished ==
    [][/\ run'.runs = run.runs =>
              /\ Len(connectors') = Len(connectors)
              /\ \A k \in 1..Len(connectors) :
                    connectors[k].published => connectors'[k].published
       /\ run'.runs # run.runs =>
              connectors' = connectors \/ connectors' = _load_connectors(list_file)
       /\ PageCalled =>
              /\ ~connectors[last_call'.index].published
              /\ ~run.before[last_call'.index]
       /\ posts' # posts =>
              /\ PageCalled
              /\ Len(posts') = Len(posts) + 1
              /\ posts'[Len(posts')].name = connectors[last_call'.index].name]_vars

\* the second command on one generator went past the connector the first
\* command had published and published the next one
C27_Witness ==
    /\ run.runs = 2 /\ run.done
    /\ Len(connectors) = 2
    /\ run.before = <<TRUE, FALSE>>
    /\ list_file.intact /\ ~list_file.connectors[1].published
    /\ last_call.index = 2 /\ last_call.returned
    /\ connectors[1].published /\ connectors[2].published

\* C28: once a command began, a connector is flagged only if it was flagged
\* when the command began
\* or its page file holds a text; a flag turns true only in a call of
\* generate_page for that connector that wrote the page file; the steps of a
\* call are taken in the order generation, file write, parse, publish
\* attempt, flag set, list file rewrite, each at most once, parse, publish
\* and flag only after the file was written, the list file rewritten only
\* after the flag was set, and at most one request reaches the CMS per call.
C28_FlagOnlyAfterWrittenPage ==
    /\ [](run.command # "idle" =>
             \A k \in 1..Len(connectors) :
                connectors[k].published =>
                    \/ run.before[k]
                    \/ \E f \in pages : /\ f.path = _sanitize_filename(connectors[k].name) \o ".txt"
                                        /\ f.text # "")
    /\ [][/\ \A k \in 1..Len(connectors) :
                (run'.runs = run.runs /\ ~connectors[k].published /\ connectors'[k].published) =>
                    /\ PageCalled
                    /\ last_call'.index = k
                    /\ last_call'.file = "written"
                    /\ [path |-> _sanitize_filename(connectors[k].name) \o ".txt",
                        text |-> last_call'.content[1]] \in pages'
          /\ PageCalled =>
                /\ Len(last_call'.steps) >= 1 /\ last_call'.steps[1] = "generate"
                /\ \A a, b \in 1..Len(last_call'.steps) :
                      a < b =>
                          LET order == <<"generate", "write", "parse", "publish", "flag", "save">>
                              rank(s) == CHOOSE r \in 1..Len(order) : order[r] = s
                          IN  rank(last_call'.steps[a]) < rank(last_call'.steps[b])
                /\ \A a \in 2..Len(last_call'.steps) :
                      last_call'.steps[a] \in {"parse", "publish", "flag"} =>
                          /\ last_call'.steps[2] = "write"
                          /\ last_call'.file = "written"
                /\ \A a \in 1..Len(last_call'.steps) :
                      last_call'.steps[a] = "save" => a > 1 /\ last_call'.steps[a - 1] = "flag"
                /\ last_call'.posted <=> (\E a \in 1..Len(last_call'.steps) : last_call'.steps[a] = "publish")
                /\ last_call'.marked <=> (\E a \in 1..Len(last_call'.steps) : last_call'.steps[a] = "flag")
                /\ Len(posts') = Len(posts) + (IF last_call'.posted THEN 1 ELSE 0)
                /\ last_call'.marked =>
                      /\ connectors'[last_call'.index].published
                      /\ (list_file' # list_file /\ list_file'.intact) =>
                            list_file'.connectors[last_call'.index].published
          /\ ~PageCalled => posts' = posts /\ pages' = pages]_vars

\* a call that took all six steps for a connector that was not flagged when
\* the command began
C28_Witness ==
    /\ last_call.index # 0
    /\ last_call.steps = <<"generate", "write", "parse", "publish", "flag", "save">>
    /\ ~run.before[last_call.index]
    /\ connectors[last_call.index].published
    /\ [path |-> _sanitize_filename(last_call.name) \o ".txt", text |-> last_call.content[1]] \in pages
    /\ Len(posts) >= 1 /\ posts[Len(posts)].name = last_call.name
    /\ list_file.connectors[last_call.index].published

-----------------------------------------------------------------------------
(* Claims about the CMS client *)

\* C21: every call of publish_integration gives a result and raises nothing:
\* status 200 or 201 with a JSON body gives success true; any other status
\* gives success false with the status code and "HTTP <code>: " followed by
\* the first 200 characters of the body; a connection error, a timeout and
\* any other exception give success false.
C21_PublishAlwaysGivesAResult ==
    \A k \in 1..Len(posts) :
        LET http == posts[k].response
            result == posts[k].result
            head == "HTTP " \o ToString(http.status_code) \o ": "
        IN  /\ result.success \in BOOLEAN
            /\ (http.kind = "response" /\ http.status_code \in {200, 201}
                  /\ http.text \in JsonBodies) => result.success
            /\ (http.kind = "response" /\ http.status_code \notin {200, 201}) =>
                  /\ ~result.success
                  /\ result.status_code = Some(http.status_code)
                  /\ result.error # None
                  /\ Prefix(result.error[1], Len(head)) = head
                  /\ Len(result.error[1]) = Len(head) + Min(Len(http.text), 200)
                  /\ SubSeq(result.error[1], Len(head) + 1, Len(result.error[1]))
                        = SubSeq(http.text, 1, Min(Len(http.text), 200))
            /\ http.kind # "response" => ~result.success

\* a 204 with a body of more than 200 characters was turned into a failure
\* result, after a 201 with a JSON body was turned into a success
C21_Witness ==
    /\ Len(posts) = 2
    /\ posts[1].response.status_code = 201 /\ posts[1].result.success
    /\ posts[2].response.status_code = 204 /\ Len(posts[2].response.text) > 200
    /\ ~posts[2].result.success
    /\ Len(posts[2].result.error[1]) = 210

====
